---- MODULE Spec2Model ----
(***************************************************************************)
(* Model of sei_client/relatorio_diario.py: the daily-report pipeline that *)
(* classifies the processes of a SEI unit against a persisted history,     *)
(* applies the new-process quota, rewrites the history file and reports.   *)
(*                                                                         *)
(* Representation.  A Python str that the code inspects character by       *)
(* character (a marker, because of str.strip) is a sequence of one-char    *)
(* strings; every other str is a TLA+ string.  A dict is a function whose  *)
(* DOMAIN is its key set, so a missing key is a key outside DOMAIN.  A     *)
(* list of Processo objects taken from snapshot_atual is the sequence of   *)
(* their positions in snapshot_atual (Python keeps references, not copies).*)
(* A key of a history entry whose JSON value is null is not in the DOMAIN  *)
(* of the entry; the entry names it in its set "nulos" instead.            *)
(***************************************************************************)
EXTENDS Integers, Sequences, FiniteSets, TLC

VARIABLES
    pc,                            \* position of the run / of the function under study
    relogio,                       \* number of runs started; the run's datetime.now()
    arquivo,                       \* settings.historico_arquivo on disk
    modo,                          \* the path run_daily_report took
    max_novos,                     \* settings.max_processos_novos
    historico_anterior,            \* dict chave -> entry, as loaded at run start
    todos_processos,               \* result of client.collect_processes
    snapshot_atual,                \* result of client.enrich_processes
    processos_novos,               \* positions of snapshot_atual classified new
    processos_atualizados,         \* positions of snapshot_atual classified updated
    processos_novos_selecionados,  \* quota: selected prefix
    processos_novos_ignorados,     \* quota: deferred remainder
    processos_ignorados,           \* dict chave -> motivo
    processos_para_pdf,            \* positions still to be downloaded
    resultados_pdf,                \* dict chave -> (resultado, motivo)
    processos_com_pdf,             \* set of chaves with a PDF
    data_execucao,                 \* timestamp written to the history
    historico_para_salvar,         \* the document to persist
    planilha,                      \* rows of the spreadsheet this run wrote
    email,                         \* what became of this run's e-mail
    pedidos_pdf,                   \* positions client.generate_pdf was called for, in order
    respostas_pdf,                 \* what client.generate_pdf answered, call by call, while
                                   \* resultados_pdf is in use
    caminhos_pdf,                  \* dict chave -> path of the PDF
    erro,                          \* the call whose exception ended the run
    itens_ignorados,               \* list(processos_ignorados.items())
    corpo_texto,                   \* lines of the plain-text e-mail body
    corpo_html,                    \* parts of the HTML e-mail body
    env,                           \* os.environ, the variables the loader reads
    settings                       \* the DailyReportSettings the loader returned

\* the inputs and results of the two pure functions
varsFuncoes == <<max_novos, historico_anterior, snapshot_atual, processos_novos,
                 processos_atualizados, processos_novos_selecionados, processos_novos_ignorados>>

\* what only a whole run uses
varsExecucao == <<relogio, arquivo, modo, todos_processos, processos_ignorados,
                  processos_para_pdf, resultados_pdf, processos_com_pdf, data_execucao,
                  historico_para_salvar, planilha, email, pedidos_pdf, respostas_pdf, caminhos_pdf, erro>>

\* the e-mail body and the list it is built from
varsRelato == <<itens_ignorados, corpo_texto, corpo_html>>

\* the environment and the settings loaded from it
varsSettings == <<env, settings>>

vars == <<pc, varsFuncoes, varsExecucao, varsRelato, varsSettings>>

----------------------------------------------------------------------------
(* Bounds of the model *)
MaxLista == 2        \* longest snapshot drawn for the classifier
MaxLimite == 3       \* longest list drawn for the quota function
MaxSnapshot == 2     \* most records the collector returns in a run
MaxExecucoes == 2    \* runs of run_daily_report in a behaviour
MaxQuota == 2        \* largest settings.max_processos_novos
MaxIgnorados == 11   \* most entries of processos_ignorados drawn for the e-mail body

----------------------------------------------------------------------------
(* Python helpers *)

None == "None"
DictVazio == <<>>

Range(s) == {s[i] : i \in 1..Len(s)}

\* dict.get(k, default)
Get(d, k, default) == IF k \in DOMAIN d THEN d[k] ELSE default

\* a or b, for str
Ou(a, b) == IF a # "" /\ a # None THEN a ELSE b

RECURSIVE lstrip(_)
lstrip(s) == IF s # <<>> /\ Head(s) = " " THEN lstrip(Tail(s)) ELSE s

RECURSIVE rstrip(_)
rstrip(s) == IF s # <<>> /\ s[Len(s)] = " " THEN rstrip(SubSeq(s, 1, Len(s) - 1)) ELSE s

\* str.strip() on a marker
strip(s) == rstrip(lstrip(s))

\* Python slice bound: negative counts from the end, clamped to 0..n
IndiceFatia(k, n) == IF k < 0 THEN (IF n + k < 0 THEN 0 ELSE n + k)
                     ELSE (IF k > n THEN n ELSE k)

\* lista[:k]
FatiaAte(lista, k) == SubSeq(lista, 1, IndiceFatia(k, Len(lista)))

\* lista[k:]
FatiaDesde(lista, k) == SubSeq(lista, IndiceFatia(k, Len(lista)) + 1, Len(lista))

----------------------------------------------------------------------------
(* Data *)

Documento(id, novo) == [id_documento |-> id, eh_novo |-> novo]

Processo(id, numero, docs, marcs, assin, tdn, ta) ==
    [id_procedimento |-> id, numero_processo |-> numero, documentos |-> docs,
     marcadores |-> marcs, assinantes |-> assin,
     tem_documentos_novos |-> tdn, tem_anotacoes |-> ta]

\* chave = processo.id_procedimento or processo.numero_processo
Chave(processo) == Ou(processo.id_procedimento, processo.numero_processo)

\* storage.processo_para_dict: the record as a JSON-ready dict, without _metadata
processo_para_dict(processo) ==
    [id_procedimento |-> processo.id_procedimento,
     numero_processo |-> processo.numero_processo,
     documentos |-> [i \in 1..Len(processo.documentos) |->
                        [id_documento |-> processo.documentos[i].id_documento,
                         eh_novo |-> processo.documentos[i].eh_novo]],
     marcadores |-> processo.marcadores,
     assinantes |-> processo.assinantes,
     tem_documentos_novos |-> processo.tem_documentos_novos,
     tem_anotacoes |-> processo.tem_anotacoes]

----------------------------------------------------------------------------
(* _identificar_processos_novos_e_atualizados *)

\* mutant: the removed comparison of tem_documentos_novos / tem_anotacoes / eh_novo is back
ProcessoAtualizado_ComIndicadores(historico_proc, processo) ==
    \/ processo.tem_documentos_novos # Get(historico_proc, "tem_documentos_novos", FALSE)
    \/ processo.tem_anotacoes # Get(historico_proc, "tem_anotacoes", FALSE)
    \/ \E d \in Range(processo.documentos) : d.eh_novo
    \/ {d.id_documento : d \in Range(processo.documentos)}
         \ {Get(d, "id_documento", None) : d \in Range(Get(historico_proc, "documentos", <<>>))} # {}
    \/ {m \in Range(Get(historico_proc, "marcadores", <<>>)) : m # <<>> /\ strip(m) # <<>>}
         # {m \in Range(processo.marcadores) : m # <<>> /\ strip(m) # <<>>}
    \/ Range(Get(historico_proc, "assinantes", <<>>)) # Range(processo.assinantes)

\* mutant: the signer comparison is forgotten
ProcessoAtualizado_SemAssinantes(historico_proc, processo) ==
    \/ {d.id_documento : d \in Range(processo.documentos)}
         \ {Get(d, "id_documento", None) : d \in Range(Get(historico_proc, "documentos", <<>>))} # {}
    \/ {m \in Range(Get(historico_proc, "marcadores", <<>>)) : m # <<>> /\ strip(m) # <<>>}
         # {m \in Range(processo.marcadores) : m # <<>> /\ strip(m) # <<>>}

\* mutant: tem_documentos_novos is compared with the stored value, as the test's name has it
ProcessoAtualizado_ComDocumentosNovos(historico_proc, processo) ==
    \/ processo.tem_documentos_novos # Get(historico_proc, "tem_documentos_novos", FALSE)
    \/ {d.id_documento : d \in Range(processo.documentos)}
         \ {Get(d, "id_documento", None) : d \in Range(Get(historico_proc, "documentos", <<>>))} # {}
    \/ {m \in Range(Get(historico_proc, "marcadores", <<>>)) : m # <<>> /\ strip(m) # <<>>}
         # {m \in Range(processo.marcadores) : m # <<>> /\ strip(m) # <<>>}
    \/ Range(Get(historico_proc, "assinantes", <<>>)) # Range(processo.assinantes)

\* the value of `atualizado` at the end of the else branch
ProcessoAtualizado(historico_proc, processo) ==
    LET docs_anteriores_ids ==
            {Get(d, "id_documento", None) : d \in Range(Get(historico_proc, "documentos", <<>>))}
        docs_atuais_ids == {d.id_documento : d \in Range(processo.documentos)}
        marcadores_anteriores ==
            {m \in Range(Get(historico_proc, "marcadores", <<>>)) : m # <<>> /\ strip(m) # <<>>}
        marcadores_atuais == {m \in Range(processo.marcadores) : m # <<>> /\ strip(m) # <<>>}
        assinantes_anteriores == Range(Get(historico_proc, "assinantes", <<>>))
        assinantes_atuais == Range(processo.assinantes)
    IN  \/ docs_atuais_ids \ docs_anteriores_ids # {}
        \/ marcadores_anteriores # marcadores_atuais
        \/ assinantes_anteriores # assinantes_atuais

\* mutant: a record absent from the history is dropped instead of being reported new
ClassificarUm_SemNovos(historico, snapshot, i, acc) ==
    LET historico_proc == Get(historico, Chave(snapshot[i]), DictVazio)
    IN  IF DOMAIN historico_proc = {} THEN acc
        ELSE IF ProcessoAtualizado(historico_proc, snapshot[i])
             THEN [acc EXCEPT !.atualizados = Append(@, i)]
             ELSE acc

\* mutant: the else is lost, a new record goes on to the comparison with its empty entry
ClassificarUm_SemElse(historico, snapshot, i, acc) ==
    LET historico_proc == Get(historico, Chave(snapshot[i]), DictVazio)
        com_novo == IF DOMAIN historico_proc = {}
                    THEN [acc EXCEPT !.novos = Append(@, i)] ELSE acc
    IN  IF ProcessoAtualizado(historico_proc, snapshot[i])
        THEN [com_novo EXCEPT !.atualizados = Append(@, i)]
        ELSE com_novo

\* historico_proc.get(nome, []) is None: the key is there and its value is null
CampoNulo(historico_proc, nome) == nome \in Get(historico_proc, "nulos", {})

\* lines 203, 214 and 227: iterating over None, and set(None), raise TypeError
LevantaTypeError(historico_proc) ==
    \E nome \in {"documentos", "marcadores", "assinantes"} : CampoNulo(historico_proc, nome)

\* one iteration of the for loop over snapshot_atual; nothing is done once an exception
\* has left the loop
ClassificarUm(historico, snapshot, i, acc) ==
    LET processo == snapshot[i]
        chave == Chave(processo)
        historico_proc == Get(historico, chave, DictVazio)
    IN  IF acc.excecao # "nenhuma" THEN acc
        ELSE IF DOMAIN historico_proc = {}     \* if not historico_proc
        THEN [acc EXCEPT !.novos = Append(@, i)]
        ELSE IF LevantaTypeError(historico_proc)
        THEN [acc EXCEPT !.excecao = "TypeError"]
        ELSE IF ProcessoAtualizado(historico_proc, processo)
             THEN [acc EXCEPT !.atualizados = Append(@, i)]
             ELSE acc

RECURSIVE IdentificarDesde(_, _, _, _)
IdentificarDesde(historico, snapshot, i, acc) ==
    IF i > Len(snapshot) THEN acc
    ELSE IdentificarDesde(historico, snapshot, i + 1, ClassificarUm(historico, snapshot, i, acc))

_identificar_processos_novos_e_atualizados(historico, snapshot) ==
    IdentificarDesde(historico, snapshot, 1,
                     [novos |-> <<>>, atualizados |-> <<>>, excecao |-> "nenhuma"])

----------------------------------------------------------------------------
(* _aplicar_limites_processos *)

\* mutant: off by one in the cut
_aplicar_limites_processos_CorteErrado(processos, max) ==
    IF Len(processos) <= max THEN <<processos, <<>>>>
    ELSE <<FatiaAte(processos, max + 1), FatiaDesde(processos, max + 1)>>

\* mutant: the early return hands back a truncated list
_aplicar_limites_processos_RetornoCurto(processos, max) ==
    IF Len(processos) <= max THEN <<FatiaAte(processos, max - 1), <<>>>>
    ELSE <<FatiaAte(processos, max), FatiaDesde(processos, max)>>

_aplicar_limites_processos(processos, max) ==
    IF Len(processos) <= max THEN <<processos, <<>>>>
    ELSE <<FatiaAte(processos, max), FatiaDesde(processos, max)>>

----------------------------------------------------------------------------
(* History: metadata, merge, file *)

\* d[k] = v
Atribuir(d, k, v) == (k :> v) @@ d

\* not chave
ChaveVazia(chave) == chave = "" \/ chave = None

_adicionar_metadata_historico(dados, data, tipo) ==
    LET metadata == Get(dados, "_metadata", DictVazio)
        marcada ==
            IF tipo = "primeira_vez"
            THEN Atribuir(Atribuir(metadata, "data_primeira_vez_visto", data),
                          "data_ultima_vez_visto", data)
            ELSE IF tipo = "atualizacao"
            THEN Atribuir(Atribuir(metadata, "data_ultima_vez_visto", data),
                          "data_ultima_atualizacao", data)
            ELSE metadata
    IN  Atribuir(dados, "_metadata", marcada)

\* one iteration of the loop of _atualizar_historico_com_datas
AtualizarUm(historico, processo, data) ==
    LET chave == Chave(processo)
        dados == processo_para_dict(processo)
    IN  IF ChaveVazia(chave) THEN historico
        ELSE Atribuir(historico, chave,
                      _adicionar_metadata_historico(dados, data,
                          IF chave \notin DOMAIN historico THEN "primeira_vez" ELSE "atualizacao"))

RECURSIVE AtualizarDesde(_, _, _, _)
AtualizarDesde(historico, processos, i, data) ==
    IF i > Len(processos) THEN historico
    ELSE AtualizarDesde(AtualizarUm(historico, processos[i], data), processos, i + 1, data)

_atualizar_historico_com_datas(historico, processos, data) ==
    AtualizarDesde(historico, processos, 1, data)

\* one iteration of the loop that builds historico_para_salvar in _executar_relatorio_diario;
\* dados["_metadata"] is the very dict held by historico_atualizado[chave], so marking it
\* marks both
SalvarUm(acc, anterior, processo, data) ==
    LET chave == Chave(processo)
        dados == processo_para_dict(processo)
    IN  IF ChaveVazia(chave) THEN acc
        ELSE IF chave \in DOMAIN acc.historico_atualizado
        THEN LET entrada == acc.historico_atualizado[chave]
                 metadata_existente == Get(entrada, "_metadata", DictVazio)
                 marcado == _adicionar_metadata_historico(
                                Atribuir(dados, "_metadata", metadata_existente), data,
                                IF chave \notin DOMAIN anterior THEN "primeira_vez" ELSE "atualizacao")
             IN  [historico_atualizado |->
                      IF "_metadata" \in DOMAIN entrada
                      THEN Atribuir(acc.historico_atualizado, chave,
                                    Atribuir(entrada, "_metadata", marcado["_metadata"]))
                      ELSE acc.historico_atualizado,
                  historico_para_salvar |-> Atribuir(acc.historico_para_salvar, chave, marcado)]
        ELSE [acc EXCEPT !.historico_para_salvar = Atribuir(@, chave, dados)]

RECURSIVE SalvarDesde(_, _, _, _, _)
SalvarDesde(acc, anterior, snapshot, i, data) ==
    IF i > Len(snapshot) THEN acc
    ELSE SalvarDesde(SalvarUm(acc, anterior, snapshot[i], data), anterior, snapshot, i + 1, data)

\* lines 781-802: the document an incremental run persists
HistoricoDiario(anterior, snapshot, data) ==
    SalvarDesde([historico_atualizado |-> _atualizar_historico_com_datas(anterior, snapshot, data),
                 historico_para_salvar |-> DictVazio],
                anterior, snapshot, 1, data).historico_para_salvar

RECURSIVE BaselineDesde(_, _, _, _)
BaselineDesde(salvar, processos, i, data) ==
    IF i > Len(processos) THEN salvar
    ELSE LET chave == Chave(processos[i])
         IN  BaselineDesde(
                 IF ChaveVazia(chave) THEN salvar
                 ELSE Atribuir(salvar, chave,
                               _adicionar_metadata_historico(processo_para_dict(processos[i]),
                                                             data, "primeira_vez")),
                 processos, i + 1, data)

\* lines 659-666: the document a baseline run persists
HistoricoBaseline(processos, data) == BaselineDesde(DictVazio, processos, 1, data)

\* the history file: absent, truncated by open(..., "w"), partly written by json.dump,
\* or a whole document
ArquivoAusente == [estado |-> "ausente", conteudo |-> DictVazio]
ArquivoTruncado == [estado |-> "vazio", conteudo |-> DictVazio]
ArquivoParcial == [estado |-> "parcial", conteudo |-> DictVazio]
ArquivoCompleto(documento) == [estado |-> "completo", conteudo |-> documento]

\* whether json.load can read the file
Legivel(arq) == arq.estado = "completo"

\* storage.carregar_historico_processos on a file that is absent or readable
carregar_historico_processos(arq) == IF Legivel(arq) THEN arq.conteudo ELSE DictVazio

\* mutant: only a missing file counts as a first run
_is_primeira_execucao_SoAusente(arq) == arq.estado = "ausente"

_is_primeira_execucao(arq) ==
    IF arq.estado = "ausente" THEN TRUE
    ELSE IF Legivel(arq) THEN DOMAIN carregar_historico_processos(arq) = {}
    ELSE TRUE                        \* except Exception: return True

----------------------------------------------------------------------------
(* Inputs of the classifier *)

mA == <<"A">>
mB == <<"B">>
mVazio == <<>>
mBranco == <<" ">>
mEspacoA == <<" ", "A">>

DocumentosOpcoes ==
    { <<>>,
      <<Documento("D1", FALSE)>>,
      <<Documento("D1", TRUE)>>,
      <<Documento("D1", FALSE), Documento("D2", TRUE)>>,
      <<Documento("D1", FALSE), Documento(None, FALSE)>> }

MarcadoresOpcoes ==
    { <<>>, <<mA>>, <<mB>>, <<mA, mBranco>>, <<mVazio>>, <<mEspacoA>>, <<mA, mB>>, <<mB, mA>> }

AssinantesOpcoes == { <<>>, <<"S1">>, <<"S1", "S2">>, <<"S2", "S1">> }

\* the records one process of the unit can be observed as
ProcessosP1 ==
    { Processo("P1", "N1", d, m, a, t, FALSE) :
        d \in DocumentosOpcoes, m \in MarcadoresOpcoes, a \in AssinantesOpcoes, t \in BOOLEAN }

\* a field of a history entry: a list, or the key is missing from the entry
Campo(v) == [presente |-> TRUE, valor |-> v]
Falta == [presente |-> FALSE, valor |-> <<>>]

ComCampo(entrada, nome, campo) ==
    IF campo.presente THEN (nome :> campo.valor) @@ entrada ELSE entrada

EntradaHistorico(id, numero, docs, marcs, assin) ==
    ComCampo(ComCampo(ComCampo(
        [id_procedimento |-> id, numero_processo |-> numero,
         tem_documentos_novos |-> FALSE, tem_anotacoes |-> FALSE],
        "documentos", docs), "marcadores", marcs), "assinantes", assin)

DocumentosHistorico ==
    { Falta, Campo(<<>>), Campo(<<[id_documento |-> "D1", eh_novo |-> FALSE]>>),
      Campo(<<[id_documento |-> "D1", eh_novo |-> FALSE], [id_documento |-> "D2", eh_novo |-> FALSE]>>),
      Campo(<<[id_documento |-> "D1", eh_novo |-> FALSE], [eh_novo |-> FALSE]>>) }

MarcadoresHistorico ==
    { Falta, Campo(<<>>), Campo(<<mA>>), Campo(<<mB>>), Campo(<<mA, mVazio>>), Campo(<<mA, mB>>) }

AssinantesHistorico == { Falta, Campo(<<>>), Campo(<<"S1">>), Campo(<<"S1", "S2">>) }

EntradasP1 ==
    { EntradaHistorico("P1", "N1", d, m, a) :
        d \in DocumentosHistorico, m \in MarcadoresHistorico, a \in AssinantesHistorico }

\* a few whole records, to draw snapshots of several processes from
pA == Processo("P1", "N1", <<Documento("D1", FALSE)>>, <<mA>>, <<"S1">>, FALSE, FALSE)
pB == Processo("P1", "N1", <<Documento("D1", FALSE), Documento("D2", TRUE)>>, <<mA>>, <<"S1">>, TRUE, FALSE)
pC == Processo("P2", "N2", <<>>, <<mB>>, <<>>, FALSE, FALSE)
pD == Processo("", "N3", <<Documento("D3", FALSE)>>, <<>>, <<"S2">>, FALSE, TRUE)
pE == Processo("P1", "N1", <<Documento("D1", FALSE)>>, <<mA>>, <<"S1", "S2">>, FALSE, FALSE)

ProcessosLista == {pA, pB, pC, pD, pE}

SeqAte(S, n) == UNION {[1..k -> S] : k \in 0..n}

\* histories over the keys of ProcessosLista: per key no entry, an empty entry, or the
\* entry the program writes for the record
HistoricosLista ==
    { h \in UNION {[K -> {DictVazio, processo_para_dict(pA), processo_para_dict(pC),
                          processo_para_dict(pD)}] : K \in SUBSET {"P1", "P2", "N3"}} :
        \A k \in DOMAIN h : h[k] = DictVazio \/ Ou(h[k].id_procedimento, h[k].numero_processo) = k }

\* entries of a file the program did not write: one of the three lists is null
EntradaNula(entrada, nome) ==
    [k \in (DOMAIN entrada \ {nome}) \cup {"nulos"} |-> IF k = "nulos" THEN {nome} ELSE entrada[k]]

EntradasNulas ==
    { EntradaNula(processo_para_dict(pA), nome) : nome \in {"documentos", "marcadores", "assinantes"} }

EntradasClassificador ==
    { <<("P1" :> e), <<p>>>> : e \in EntradasP1, p \in ProcessosP1 }
    \cup { <<h, s>> : h \in HistoricosLista, s \in SeqAte(ProcessosLista, MaxLista) }
    \cup { <<("P1" :> e) @@ ("P2" :> processo_para_dict(pC)), s>> :
              e \in EntradasNulas, s \in SeqAte(ProcessosLista, MaxLista) }

----------------------------------------------------------------------------
(* Specification of the classifier as a function of its inputs *)

\* no e-mail body has been built
SemRelato ==
    /\ itens_ignorados = <<>>
    /\ corpo_texto = <<>>
    /\ corpo_html = <<>>

\* load_daily_report_settings has not been called
SemSettings ==
    /\ env = DictVazio
    /\ settings = DictVazio

\* no run of run_daily_report is in progress, and the history file is arq
SemExecucaoEm(arq) ==
    /\ relogio = 0
    /\ arquivo = arq
    /\ modo = "nenhum"
    /\ todos_processos = <<>>
    /\ processos_ignorados = DictVazio
    /\ processos_para_pdf = <<>>
    /\ resultados_pdf = DictVazio
    /\ processos_com_pdf = {}
    /\ data_execucao = 0
    /\ historico_para_salvar = DictVazio
    /\ planilha = <<>>
    /\ email = "nenhum"
    /\ pedidos_pdf = <<>>
    /\ respostas_pdf = <<>>
    /\ caminhos_pdf = DictVazio
    /\ erro = "nenhum"

SemExecucao == SemExecucaoEm(ArquivoAusente)

InitClassificar ==
    /\ pc = "identificar"
    /\ SemExecucao
    /\ SemRelato
    /\ SemSettings
    /\ \E e \in EntradasClassificador :
          /\ historico_anterior = e[1]
          /\ snapshot_atual = e[2]
    /\ processos_novos = <<>>
    /\ processos_atualizados = <<>>
    /\ max_novos = 1
    /\ processos_novos_selecionados = <<>>
    /\ processos_novos_ignorados = <<>>

\* the call returns its two lists, or the exception leaves it and nothing is returned
Identificar ==
    /\ pc = "identificar"
    /\ LET r == _identificar_processos_novos_e_atualizados(historico_anterior, snapshot_atual)
       IN  IF r.excecao = "nenhuma"
           THEN /\ processos_novos' = r.novos
                /\ processos_atualizados' = r.atualizados
                /\ pc' = "identificado"
           ELSE /\ UNCHANGED <<processos_novos, processos_atualizados>>
                /\ pc' = r.excecao
    /\ UNCHANGED <<historico_anterior, snapshot_atual, max_novos,
                   processos_novos_selecionados, processos_novos_ignorados, varsExecucao, varsRelato, varsSettings>>

NextClassificar == Identificar

SpecClassificar == InitClassificar /\ [][NextClassificar]_vars

----------------------------------------------------------------------------
(* Specification of the quota as a function of its inputs *)

InitLimites ==
    /\ pc = "chamada"
    /\ SemExecucao
    /\ SemRelato
    /\ SemSettings
    /\ historico_anterior = DictVazio
    /\ snapshot_atual = <<>>
    /\ processos_novos \in SeqAte(1..MaxLimite, MaxLimite)
    /\ processos_atualizados = <<>>
    /\ max_novos \in (0 - MaxLimite - 1)..(MaxLimite + 1)
    /\ processos_novos_selecionados = <<>>
    /\ processos_novos_ignorados = <<>>

Limitar ==
    /\ pc = "chamada"
    /\ LET r == _aplicar_limites_processos(processos_novos, max_novos)
       IN  /\ processos_novos_selecionados' = r[1]
           /\ processos_novos_ignorados' = r[2]
    /\ pc' = "retornou"
    /\ UNCHANGED <<historico_anterior, snapshot_atual, processos_novos,
                   processos_atualizados, max_novos, varsExecucao, varsRelato, varsSettings>>

NextLimites == Limitar

SpecLimites == InitLimites /\ [][NextLimites]_vars

----------------------------------------------------------------------------
(* load_daily_report_settings *)

Digitos == ("0" :> 0) @@ ("1" :> 1) @@ ("2" :> 2) @@ ("3" :> 3) @@ ("4" :> 4)
             @@ ("5" :> 5) @@ ("6" :> 6) @@ ("7" :> 7) @@ ("8" :> 8) @@ ("9" :> 9)

RECURSIVE ValorDecimal(_)
ValorDecimal(s) ==
    IF s = <<>> THEN 0 ELSE 10 * ValorDecimal(SubSeq(s, 1, Len(s) - 1)) + Digitos[s[Len(s)]]

\* int(s) for a str s: surrounding blanks dropped, an optional sign, then decimal digits
\* only; anything else is a ValueError
int(s) ==
    LET limpo == strip(s)
        sinal == IF limpo # <<>> /\ Head(limpo) \in {"+", "-"} THEN Head(limpo) ELSE ""
        digitos == IF sinal = "" THEN limpo ELSE Tail(limpo)
    IN  IF digitos # <<>> /\ \A j \in 1..Len(digitos) : digitos[j] \in DOMAIN Digitos
        THEN [ValueError |-> FALSE,
              valor |-> IF sinal = "-" THEN 0 - ValorDecimal(digitos) ELSE ValorDecimal(digitos)]
        ELSE [ValueError |-> TRUE, valor |-> 0]

\* if env.get(nome): the variable is set and not empty
Definida(ambiente, nome) == nome \in DOMAIN ambiente /\ ambiente[nome] # <<>>

\* mutant: a parsed value below 1 is kept
InteiroComMinimo_SemMinimo(ambiente, nome, default) ==
    IF ~Definida(ambiente, nome) THEN default
    ELSE LET r == int(ambiente[nome])
         IN  IF r.ValueError THEN default ELSE r.valor

\* lines 64-71 and 73-80
InteiroComMinimo(ambiente, nome, default) ==
    IF ~Definida(ambiente, nome) THEN default
    ELSE LET r == int(ambiente[nome])
         IN  IF r.ValueError THEN default
             ELSE IF r.valor < 1 THEN default
             ELSE r.valor

\* lines 107-112
InteiroOuDefault(ambiente, nome, default) ==
    IF ~Definida(ambiente, nome) THEN default
    ELSE LET r == int(ambiente[nome])
         IN  IF r.ValueError THEN default ELSE r.valor

\* config._str_to_bool: "None" for a variable that is unset or not a boolean word
ValoresFalsos == {"false", "0", "no", "off"}
ValoresVerdadeiros == {"true", "1", "yes", "on"}
_str_to_bool(valor) ==
    IF valor \in ValoresFalsos THEN "False"
    ELSE IF valor \in ValoresVerdadeiros THEN "True"
    ELSE "None"

load_daily_report_settings(ambiente) ==
    [max_processos_novos |-> InteiroComMinimo(ambiente, "SEI_REL_MAX_PROCESSOS_NOVOS_DIA", 10),
     max_tamanho_pdf_mb |-> InteiroComMinimo(ambiente, "SEI_REL_MAX_TAMANHO_PDF_MB", 100),
     smtp_port |-> InteiroOuDefault(ambiente, "SEI_REL_SMTP_PORT", 587),
     smtp_use_tls |-> _str_to_bool(Get(ambiente, "SEI_REL_SMTP_USE_TLS", None)) # "False"]

\* what a variable read as an integer can hold: unset, or a str
InteirosEnv ==
    { Falta, Campo(<<>>), Campo(<<"0">>), Campo(<<"1">>), Campo(<<"5">>), Campo(<<"-", "1">>),
      Campo(<<"1", "2">>), Campo(<<" ", "7">>), Campo(<<"a">>), Campo(<<"1", ".", "5">>) }

PortasEnv == { Falta, Campo(<<"4", "6", "5">>), Campo(<<"a">>), Campo(<<"0">>) }

TlsEnv == { Falta, Campo("false"), Campo("true"), Campo("0"), Campo("talvez"), Campo("") }

Ambientes ==
    { ComCampo(ComCampo(ComCampo(ComCampo(DictVazio,
          "SEI_REL_MAX_PROCESSOS_NOVOS_DIA", a), "SEI_REL_MAX_TAMANHO_PDF_MB", b),
          "SEI_REL_SMTP_PORT", c), "SEI_REL_SMTP_USE_TLS", d) :
        a \in InteirosEnv, b \in InteirosEnv, c \in PortasEnv, d \in TlsEnv }

InitSettings ==
    /\ pc = "carregar"
    /\ SemExecucao
    /\ SemRelato
    /\ historico_anterior = DictVazio
    /\ snapshot_atual = <<>>
    /\ max_novos = 1
    /\ processos_novos = <<>>
    /\ processos_atualizados = <<>>
    /\ processos_novos_selecionados = <<>>
    /\ processos_novos_ignorados = <<>>
    /\ env \in Ambientes
    /\ settings = DictVazio

CarregarSettings ==
    /\ pc = "carregar"
    /\ settings' = load_daily_report_settings(env)
    /\ pc' = "carregado"
    /\ UNCHANGED <<varsFuncoes, varsExecucao, varsRelato, env>>

NextSettings == CarregarSettings

SpecSettings == InitSettings /\ [][NextSettings]_vars

----------------------------------------------------------------------------
(* run_daily_report, run after run *)

\* what the collector can return for one process of the unit
Coletaveis == {pA, pB, pD}

\* settings.max_tamanho_pdf_mb, scaled down
max_tamanho_pdf_mb == 1

MotivoNone == [tipo |-> "None"]
MotivoLimite == [tipo |-> "Limite de processos novos excedido"]

\* what client.generate_pdf can answer: a PDFDownloadResult (with the state of the file
\* it names), or an exception
RespostasPdf ==
    { [excecao |-> FALSE, sucesso |-> TRUE, caminho |-> "pdf", existe |-> TRUE,
       tamanho |-> max_tamanho_pdf_mb * 1024 * 1024, erro |-> None],
      [excecao |-> FALSE, sucesso |-> TRUE, caminho |-> "pdf", existe |-> TRUE,
       tamanho |-> max_tamanho_pdf_mb * 1024 * 1024 + 1, erro |-> None],
      [excecao |-> FALSE, sucesso |-> TRUE, caminho |-> "pdf", existe |-> FALSE,
       tamanho |-> 0, erro |-> None],
      [excecao |-> FALSE, sucesso |-> FALSE, caminho |-> None, existe |-> FALSE,
       tamanho |-> 0, erro |-> "erro SEI"],
      [excecao |-> TRUE, sucesso |-> FALSE, caminho |-> None, existe |-> FALSE,
       tamanho |-> 0, erro |-> "exc"] }

\* round(numerador / denominador), a tie going to the even neighbour
ArredondarParaPar(numerador, denominador) ==
    LET q == numerador \div denominador
        r == numerador % denominador
    IN  IF 2 * r > denominador THEN q + 1
        ELSE IF 2 * r < denominador THEN q
        ELSE IF q % 2 = 0 THEN q ELSE q + 1

\* f"{tamanho / (1024*1024):.2f}": the integer part and the two decimals
DuasCasas(tamanho) ==
    LET centesimos == (tamanho \div (1024 * 1024)) * 100
                        + ArredondarParaPar((tamanho % (1024 * 1024)) * 100, 1024 * 1024)
    IN  [inteiro |-> centesimos \div 100, decimais |-> centesimos % 100]

\* the body of the for loop of _baixar_pdfs_com_limite: (resultado, motivo) of one record;
\* the resultado carries the state of the file its caminho names
ResultadoPdf(resposta) ==
    IF resposta.excecao
    THEN [resultado |-> [sucesso |-> FALSE, caminho |-> None, erro |-> resposta.erro,
                         existe |-> FALSE, tamanho |-> 0],
          motivo |-> [tipo |-> "Erro", texto |-> resposta.erro]]
    ELSE [resultado |-> [sucesso |-> resposta.sucesso, caminho |-> resposta.caminho,
                         erro |-> resposta.erro, existe |-> resposta.existe,
                         tamanho |-> resposta.tamanho],
          motivo |->
              IF ~resposta.sucesso \/ resposta.caminho = None
              THEN [tipo |-> "falha",
                    texto |-> IF resposta.erro # None /\ resposta.erro # ""
                              THEN resposta.erro ELSE "Falha desconhecida no download"]
              ELSE IF resposta.existe /\ resposta.tamanho > max_tamanho_pdf_mb * 1024 * 1024
              THEN [tipo |-> "PDF >", limite_mb |-> max_tamanho_pdf_mb,
                    tamanho_mb |-> DuasCasas(resposta.tamanho)]
              ELSE MotivoNone]

\* lines 760-763
IgnoradosPorLimite(snapshot, ignorados) ==
    [k \in {Chave(snapshot[ignorados[j]]) : j \in 1..Len(ignorados)} |-> MotivoLimite]

\* lines 770-777
ComPdf(resultados) ==
    {k \in DOMAIN resultados :
        /\ resultados[k].resultado.sucesso
        /\ resultados[k].resultado.caminho # None
        /\ resultados[k].motivo = MotivoNone}
IgnoradosPorPdf(resultados, ignorados) ==
    [k \in DOMAIN ignorados \cup {c \in DOMAIN resultados : c \notin ComPdf(resultados)
                                                         /\ resultados[c].motivo # MotivoNone} |->
        IF k \in DOMAIN resultados /\ k \notin ComPdf(resultados)
                                    /\ resultados[k].motivo # MotivoNone
        THEN resultados[k].motivo ELSE ignorados[k]]

\* the columns of a row read from the record
ColunasDoProcesso(proc) ==
    [numero_processo |-> proc.numero_processo,
     marcadores |-> proc.marcadores,
     documentos_novos |-> proc.tem_documentos_novos,
     anotacoes |-> proc.tem_anotacoes,
     id_procedimento |-> proc.id_procedimento]

\* the positions of a list that a predicate over positions keeps
RECURSIVE PosicoesEm(_, _, _)
PosicoesEm(n, i, manter) ==
    IF i > n THEN <<>>
    ELSE (IF i \in manter THEN <<i>> ELSE <<>>) \o PosicoesEm(n, i + 1, manter)

\* mutant: only the records that were classified get a row
LinhasPlanilha_SoProcessados(snapshot, novos, atualizados, com_pdf, ignorados) ==
    LET posicoes == PosicoesEm(Len(snapshot), 1, Range(novos) \cup Range(atualizados))
    IN  [j \in 1..Len(posicoes) |->
            LET chave == Chave(snapshot[posicoes[j]])
            IN  [processo |-> ColunasDoProcesso(snapshot[posicoes[j]]),
                 eh_novo |-> chave \in {Chave(snapshot[n]) : n \in Range(novos)},
                 teve_atualizacao |-> chave \in {Chave(snapshot[n]) : n \in Range(atualizados)},
                 ignorado |-> chave \in DOMAIN ignorados,
                 pdf_baixado |-> chave \in com_pdf,
                 motivo |-> Get(ignorados, chave, [tipo |-> ""])]]

\* lines 405-434: one row per record of the snapshot
LinhasPlanilha(snapshot, novos, atualizados, com_pdf, ignorados) ==
    [i \in 1..Len(snapshot) |->
        LET chave == Chave(snapshot[i])
        IN  [processo |-> ColunasDoProcesso(snapshot[i]),
             eh_novo |-> chave \in {Chave(snapshot[j]) : j \in Range(novos)},
             teve_atualizacao |-> chave \in {Chave(snapshot[j]) : j \in Range(atualizados)},
             ignorado |-> chave \in DOMAIN ignorados,
             pdf_baixado |-> chave \in com_pdf,
             motivo |-> Get(ignorados, chave, [tipo |-> ""])]]

----------------------------------------------------------------------------
(* _construir_corpo_email_texto and _construir_corpo_email_html *)

\* the display cap of the "Nao analisados" section
LimiteExibicao == 10

\* a list without its repeated elements, first occurrences kept
RECURSIVE SemRepetir(_)
SemRepetir(s) ==
    IF s = <<>> THEN <<>>
    ELSE LET inicio == SemRepetir(SubSeq(s, 1, Len(s) - 1))
         IN  IF s[Len(s)] \in Range(inicio) THEN inicio ELSE Append(inicio, s[Len(s)])

\* list(processos_ignorados.items()): a dict keeps its keys in the order they were first
\* assigned, the quota's keys (line 763) before the keys of resultados_pdf (line 777)
ItensIgnorados(snapshot, novos_ignorados, pedidos, ignorados) ==
    LET chaves == [j \in 1..Len(novos_ignorados) |-> Chave(snapshot[novos_ignorados[j]])]
                    \o [j \in 1..Len(pedidos) |-> Chave(snapshot[pedidos[j]])]
        ordem == SemRepetir(SelectSeq(chaves, LAMBDA k : k \in DOMAIN ignorados))
    IN  [j \in 1..Len(ordem) |-> [chave |-> ordem[j], motivo |-> ignorados[ordem[j]]]]

\* the reference to the PDF a line of a new or updated record ends with
InfoPdf(chave, com_pdf, caminhos) ==
    IF chave \in com_pdf /\ chave \in DOMAIN caminhos THEN caminhos[chave] ELSE ""

\* sections 1 and 2, the same records in both formats
LinhasNovos(snapshot, novos, com_pdf, caminhos) ==
    IF novos = <<>> THEN <<[tipo |-> "nenhum processo novo"]>>
    ELSE [j \in 1..Len(novos) |->
             LET proc == snapshot[novos[j]]
             IN  [tipo |-> "novo", numero_processo |-> proc.numero_processo,
                  marcadores |-> proc.marcadores,
                  pdf |-> InfoPdf(Chave(proc), com_pdf, caminhos)]]

LinhasAtualizados(snapshot, atualizados, com_pdf, caminhos) ==
    IF atualizados = <<>> THEN <<[tipo |-> "nenhum processo atualizado"]>>
    ELSE [j \in 1..Len(atualizados) |->
             LET proc == snapshot[atualizados[j]]
             IN  [tipo |-> "atualizado", numero_processo |-> proc.numero_processo,
                  docs_novos_count |-> Cardinality({d \in 1..Len(proc.documentos) :
                                                      proc.documentos[d].eh_novo}),
                  marcadores |-> proc.marcadores,
                  pdf |-> InfoPdf(Chave(proc), com_pdf, caminhos)]]

\* mutant: the list is not cut at the cap
ItensExibidos_SemCorte(itens) ==
    [j \in 1..Len(itens) |->
        [tipo |-> "item", proc_id |-> itens[j].chave, motivo |-> itens[j].motivo]]
    \o (IF Len(itens) > LimiteExibicao
        THEN <<[tipo |-> "mais", quantidade |-> Len(itens) - LimiteExibicao]>>
        ELSE <<>>)

\* the lines of the items shown and of the overflow, the same in both formats
ItensExibidos(itens) ==
    LET exibidos == FatiaAte(itens, LimiteExibicao)
    IN  [j \in 1..Len(exibidos) |->
            [tipo |-> "item", proc_id |-> exibidos[j].chave, motivo |-> exibidos[j].motivo]]
        \o (IF Len(itens) > LimiteExibicao
            THEN <<[tipo |-> "mais", quantidade |-> Len(itens) - LimiteExibicao]>>
            ELSE <<>>)

\* lines 506-514
SecaoIgnoradosTexto(itens) ==
    IF itens = <<>> THEN <<>>
    ELSE <<[tipo |-> "3. Nao analisados", total |-> Len(itens)], [tipo |-> ""]>>
         \o ItensExibidos(itens) \o <<[tipo |-> ""]>>

\* lines 592-600
SecaoIgnoradosHtml(itens) ==
    IF itens = <<>> THEN <<>>
    ELSE <<[tipo |-> "<h2>3. Nao analisados</h2>", total |-> Len(itens)], [tipo |-> "<ul>"]>>
         \o ItensExibidos(itens) \o <<[tipo |-> "</ul>"]>>

_construir_corpo_email_texto(snapshot, novos, atualizados, itens, com_pdf, caminhos) ==
    <<[tipo |-> "[SEI] Relatorio diario"], [tipo |-> ""],
      [tipo |-> "1. Processos novos", total |-> Len(novos)], [tipo |-> ""]>>
    \o LinhasNovos(snapshot, novos, com_pdf, caminhos)
    \o <<[tipo |-> ""], [tipo |-> "2. Processos atualizados", total |-> Len(atualizados)],
         [tipo |-> ""]>>
    \o LinhasAtualizados(snapshot, atualizados, com_pdf, caminhos)
    \o <<[tipo |-> ""]>>
    \o SecaoIgnoradosTexto(itens)
    \o <<[tipo |-> "Observacao"]>>

_construir_corpo_email_html(snapshot, novos, atualizados, itens, com_pdf, caminhos) ==
    <<[tipo |-> "<html>"], [tipo |-> "<h1>[SEI] Relatorio diario</h1>"],
      [tipo |-> "<h2>1. Processos novos</h2>", total |-> Len(novos)]>>
    \o (IF novos = <<>> THEN <<>> ELSE <<[tipo |-> "<ul>"]>>)
    \o LinhasNovos(snapshot, novos, com_pdf, caminhos)
    \o (IF novos = <<>> THEN <<>> ELSE <<[tipo |-> "</ul>"]>>)
    \o <<[tipo |-> "<h2>2. Processos atualizados</h2>", total |-> Len(atualizados)]>>
    \o (IF atualizados = <<>> THEN <<>> ELSE <<[tipo |-> "<ul>"]>>)
    \o LinhasAtualizados(snapshot, atualizados, com_pdf, caminhos)
    \o (IF atualizados = <<>> THEN <<>> ELSE <<[tipo |-> "</ul>"]>>)
    \o SecaoIgnoradosHtml(itens)
    \o <<[tipo |-> "<p>Observacao</p>"], [tipo |-> "</html>"]>>

----------------------------------------------------------------------------
(* Specification of the e-mail bodies as functions of their inputs *)

MotivosOpcoes == {[tipo |-> "Limite de processos novos excedido"],
                  [tipo |-> "falha", texto |-> "erro SEI"]}

\* the item lists of a dict of n entries, keys in insertion order
ItensOpcoes ==
    UNION {{[j \in 1..n |-> [chave |-> "PROC-" \o ToString(j), motivo |-> m[j]]] :
               m \in [1..n -> MotivosOpcoes]} : n \in 0..MaxIgnorados}

InitCorpo ==
    /\ pc = "construir"
    /\ SemExecucao
    /\ SemSettings
    /\ historico_anterior = DictVazio
    /\ max_novos = 1
    /\ processos_novos = <<>>
    /\ processos_novos_ignorados = <<>>
    /\ \E s \in {<<>>, <<pB, pD>>} :
          /\ snapshot_atual = s
          /\ processos_novos_selecionados = IF s = <<>> THEN <<>> ELSE <<2>>
          /\ processos_atualizados = IF s = <<>> THEN <<>> ELSE <<1>>
    /\ itens_ignorados \in ItensOpcoes
    /\ corpo_texto = <<>>
    /\ corpo_html = <<>>

ConstruirCorpo ==
    /\ pc = "construir"
    /\ corpo_texto' = _construir_corpo_email_texto(
                          snapshot_atual, processos_novos_selecionados, processos_atualizados,
                          itens_ignorados, processos_com_pdf, caminhos_pdf)
    /\ corpo_html' = _construir_corpo_email_html(
                         snapshot_atual, processos_novos_selecionados, processos_atualizados,
                         itens_ignorados, processos_com_pdf, caminhos_pdf)
    /\ pc' = "construido"
    /\ UNCHANGED <<varsFuncoes, varsExecucao, itens_ignorados, varsSettings>>

NextCorpo == ConstruirCorpo

SpecCorpo == InitCorpo /\ [][NextCorpo]_vars

----------------------------------------------------------------------------
(* The steps of a run *)

\* the results of a run, as they are before the run computes them
SemResultados ==
    /\ todos_processos' = <<>>
    /\ snapshot_atual' = <<>>
    /\ processos_novos' = <<>>
    /\ processos_atualizados' = <<>>
    /\ processos_novos_selecionados' = <<>>
    /\ processos_novos_ignorados' = <<>>
    /\ processos_ignorados' = DictVazio
    /\ processos_para_pdf' = <<>>
    /\ resultados_pdf' = DictVazio
    /\ processos_com_pdf' = {}
    /\ data_execucao' = 0
    /\ historico_para_salvar' = DictVazio
    /\ planilha' = <<>>
    /\ email' = "nenhum"
    /\ pedidos_pdf' = <<>>
    /\ respostas_pdf' = <<>>
    /\ caminhos_pdf' = DictVazio
    /\ itens_ignorados' = <<>>
    /\ corpo_texto' = <<>>
    /\ corpo_html' = <<>>

\* the process ends without finishing the run: its memory is gone, the files stay
Encerrar(como, excecao) ==
    /\ pc' = como
    /\ erro' = excecao
    /\ modo' = "nenhum"
    /\ historico_anterior' = DictVazio
    /\ SemResultados
    /\ UNCHANGED <<relogio, arquivo, max_novos, varsSettings>>

\* the history file before the first run of the behaviour: none yet, or the one earlier
\* runs left, about a process the collector no longer lists
ArquivosIniciais == {ArquivoAusente, ArquivoCompleto(HistoricoBaseline(<<pC>>, 0))}

Init ==
    /\ pc = "parado"
    /\ \E arq \in ArquivosIniciais : SemExecucaoEm(arq)
    /\ SemRelato
    /\ SemSettings
    /\ max_novos \in {1, MaxQuota}
    /\ historico_anterior = DictVazio
    /\ snapshot_atual = <<>>
    /\ processos_novos = <<>>
    /\ processos_atualizados = <<>>
    /\ processos_novos_selecionados = <<>>
    /\ processos_novos_ignorados = <<>>

Parado == pc \in {"parado", "fim", "abortado", "interrompido"}

\* lines 862-881: login, load the history, choose the path
Iniciar ==
    /\ Parado
    /\ relogio < MaxExecucoes
    /\ relogio' = relogio + 1
    /\ historico_anterior' = carregar_historico_processos(arquivo)
    /\ modo' = IF _is_primeira_execucao(arquivo) THEN "baseline" ELSE "diario"
    /\ SemResultados
    /\ erro' = "nenhum"
    /\ pc' = "coletar"
    /\ UNCHANGED <<arquivo, max_novos, varsSettings>>

\* line 872: client.login() raises
FalhaLogin ==
    /\ Parado
    /\ relogio < MaxExecucoes
    /\ relogio' = relogio + 1
    /\ pc' = "abortado"
    /\ erro' = "login"
    /\ modo' = "nenhum"
    /\ historico_anterior' = DictVazio
    /\ SemResultados
    /\ UNCHANGED <<arquivo, max_novos, varsSettings>>

\* line 875: the loader raises on a file json.load cannot read
FalhaCarregar ==
    /\ Parado
    /\ relogio < MaxExecucoes
    /\ arquivo.estado # "ausente" /\ ~Legivel(arquivo)
    /\ relogio' = relogio + 1
    /\ pc' = "abortado"
    /\ erro' = "carregar_historico_processos"
    /\ modo' = "nenhum"
    /\ historico_anterior' = DictVazio
    /\ SemResultados
    /\ UNCHANGED <<arquivo, max_novos, varsSettings>>

\* lines 624-644 and 739: client.collect_processes; the baseline may cut the list to
\* SEI_REL_LIMITE_BASELINE records (0: the variable is unset)
Coletar ==
    /\ pc = "coletar"
    /\ todos_processos' \in
           { IF modo = "baseline" /\ limite > 0 /\ limite < Len(coletados)
             THEN FatiaAte(coletados, limite) ELSE coletados :
               coletados \in SeqAte(Coletaveis, MaxSnapshot), limite \in 0..MaxSnapshot }
    /\ pc' = "enriquecer"
    /\ UNCHANGED <<relogio, arquivo, modo, max_novos, historico_anterior, snapshot_atual,
                   processos_novos, processos_atualizados, processos_novos_selecionados,
                   processos_novos_ignorados, processos_ignorados, processos_para_pdf,
                   resultados_pdf, processos_com_pdf, data_execucao, historico_para_salvar,
                   planilha, email, pedidos_pdf, respostas_pdf, caminhos_pdf, erro, varsRelato, varsSettings>>

\* mutant: the history file is opened for writing before the collection is known to work
FalhaColeta_ArquivoAberto ==
    /\ pc = "coletar"
    /\ pc' = "abortado"
    /\ erro' = "collect_processes"
    /\ arquivo' = ArquivoTruncado
    /\ modo' = "nenhum"
    /\ historico_anterior' = DictVazio
    /\ SemResultados
    /\ UNCHANGED <<relogio, max_novos, varsSettings>>

\* lines 624 and 739: client.collect_processes raises
FalhaColeta ==
    /\ pc = "coletar"
    /\ Encerrar("abortado", "collect_processes")

\* lines 647 and 752: client.enrich_processes hands the records back with their documents
Enriquecer ==
    /\ pc = "enriquecer"
    /\ snapshot_atual' = todos_processos
    /\ pc' = IF modo = "baseline" THEN "montar" ELSE "classificar"
    /\ UNCHANGED <<relogio, arquivo, modo, max_novos, historico_anterior, todos_processos,
                   processos_novos, processos_atualizados, processos_novos_selecionados,
                   processos_novos_ignorados, processos_ignorados, processos_para_pdf,
                   resultados_pdf, processos_com_pdf, data_execucao, historico_para_salvar,
                   planilha, email, pedidos_pdf, respostas_pdf, caminhos_pdf, erro, varsRelato, varsSettings>>

\* lines 647 and 752: client.enrich_processes raises
FalhaEnriquecimento ==
    /\ pc = "enriquecer"
    /\ Encerrar("abortado", "enrich_processes")

\* line 755
Classificar ==
    /\ pc = "classificar"
    /\ LET r == _identificar_processos_novos_e_atualizados(historico_anterior, snapshot_atual)
       IN  IF r.excecao = "nenhuma"
           THEN /\ processos_novos' = r.novos
                /\ processos_atualizados' = r.atualizados
                /\ pc' = "limitar"
                /\ UNCHANGED <<relogio, arquivo, modo, max_novos, historico_anterior,
                               todos_processos, snapshot_atual, processos_novos_selecionados,
                               processos_novos_ignorados, processos_ignorados,
                               processos_para_pdf, resultados_pdf, processos_com_pdf,
                               data_execucao, historico_para_salvar, planilha, email,
                               pedidos_pdf, respostas_pdf, caminhos_pdf, erro, varsRelato, varsSettings>>
           ELSE Encerrar("abortado", r.excecao)

\* lines 759-766
AplicarLimites ==
    /\ pc = "limitar"
    /\ LET r == _aplicar_limites_processos(processos_novos, max_novos)
       IN  /\ processos_novos_selecionados' = r[1]
           /\ processos_novos_ignorados' = r[2]
           /\ processos_ignorados' = IgnoradosPorLimite(snapshot_atual, r[2])
           /\ processos_para_pdf' = r[1] \o processos_atualizados
    /\ pc' = "baixar"
    /\ UNCHANGED <<relogio, arquivo, modo, max_novos, historico_anterior, todos_processos,
                   snapshot_atual, processos_novos, processos_atualizados,
                   resultados_pdf, processos_com_pdf, data_execucao, historico_para_salvar,
                   planilha, email, pedidos_pdf, respostas_pdf, caminhos_pdf, erro, varsRelato, varsSettings>>

\* mutant: an exception of client.generate_pdf leaves the loop
BaixarPdf_ParaNaExcecao ==
    /\ pc = "baixar"
    /\ processos_para_pdf # <<>>
    /\ \E resposta \in RespostasPdf :
          /\ resultados_pdf' = Atribuir(resultados_pdf, Chave(snapshot_atual[Head(processos_para_pdf)]),
                                        ResultadoPdf(resposta))
          /\ respostas_pdf' = Append(respostas_pdf, resposta)
          /\ processos_para_pdf' = IF resposta.excecao THEN <<>> ELSE Tail(processos_para_pdf)
    /\ pedidos_pdf' = Append(pedidos_pdf, Head(processos_para_pdf))
    /\ UNCHANGED <<pc, relogio, arquivo, modo, max_novos, historico_anterior, todos_processos,
                   snapshot_atual, processos_novos, processos_atualizados,
                   processos_novos_selecionados, processos_novos_ignorados,
                   processos_ignorados, processos_com_pdf, data_execucao,
                   historico_para_salvar, planilha, email, caminhos_pdf, erro,
                   varsRelato, varsSettings>>

\* lines 276-312: one iteration of the download loop
BaixarPdf ==
    /\ pc = "baixar"
    /\ processos_para_pdf # <<>>
    /\ \E resposta \in RespostasPdf :
          /\ resultados_pdf' = Atribuir(resultados_pdf, Chave(snapshot_atual[Head(processos_para_pdf)]),
                                        ResultadoPdf(resposta))
          /\ respostas_pdf' = Append(respostas_pdf, resposta)
    /\ pedidos_pdf' = Append(pedidos_pdf, Head(processos_para_pdf))
    /\ processos_para_pdf' = Tail(processos_para_pdf)
    /\ UNCHANGED <<pc, relogio, arquivo, modo, max_novos, historico_anterior, todos_processos,
                   snapshot_atual, processos_novos, processos_atualizados,
                   processos_novos_selecionados, processos_novos_ignorados,
                   processos_ignorados, processos_com_pdf, data_execucao,
                   historico_para_salvar, planilha, email, caminhos_pdf, erro, varsRelato, varsSettings>>

\* lines 769-777
ProcessarResultados ==
    /\ pc = "baixar"
    /\ processos_para_pdf = <<>>
    /\ processos_com_pdf' = ComPdf(resultados_pdf)
    /\ caminhos_pdf' = [k \in ComPdf(resultados_pdf) |-> resultados_pdf[k].resultado.caminho]
    /\ processos_ignorados' = IgnoradosPorPdf(resultados_pdf, processos_ignorados)
    /\ pc' = "atualizar"
    /\ UNCHANGED <<relogio, arquivo, modo, max_novos, historico_anterior, todos_processos,
                   snapshot_atual, processos_novos, processos_atualizados,
                   processos_novos_selecionados, processos_novos_ignorados,
                   processos_para_pdf, resultados_pdf, data_execucao,
                   historico_para_salvar, planilha, email, pedidos_pdf, respostas_pdf, erro, varsRelato, varsSettings>>

\* mutant: the records the quota deferred are left out of the history
AtualizarHistorico_SemAdiados ==
    /\ pc = "atualizar"
    /\ data_execucao' = relogio
    /\ historico_para_salvar' =
           LET posicoes == PosicoesEm(Len(snapshot_atual), 1,
                                      (1..Len(snapshot_atual)) \ Range(processos_novos_ignorados))
           IN  HistoricoDiario(historico_anterior,
                               [j \in 1..Len(posicoes) |-> snapshot_atual[posicoes[j]]], relogio)
    /\ resultados_pdf' = DictVazio
    /\ respostas_pdf' = <<>>
    /\ pc' = "abrir"
    /\ UNCHANGED <<relogio, arquivo, modo, max_novos, historico_anterior, todos_processos,
                   snapshot_atual, processos_novos, processos_atualizados,
                   processos_novos_selecionados, processos_novos_ignorados,
                   processos_ignorados, processos_para_pdf, processos_com_pdf,
                   planilha, email, pedidos_pdf, caminhos_pdf, erro, varsRelato, varsSettings>>

\* lines 779-802: resultados_pdf and the answers behind it are not read after this point
AtualizarHistorico ==
    /\ pc = "atualizar"
    /\ data_execucao' = relogio
    /\ historico_para_salvar' = HistoricoDiario(historico_anterior, snapshot_atual, relogio)
    /\ resultados_pdf' = DictVazio
    /\ respostas_pdf' = <<>>
    /\ pc' = "abrir"
    /\ UNCHANGED <<relogio, arquivo, modo, max_novos, historico_anterior, todos_processos,
                   snapshot_atual, processos_novos, processos_atualizados,
                   processos_novos_selecionados, processos_novos_ignorados,
                   processos_ignorados, processos_para_pdf, processos_com_pdf,
                   planilha, email, pedidos_pdf, caminhos_pdf, erro, varsRelato, varsSettings>>

\* lines 649-666
MontarBaseline ==
    /\ pc = "montar"
    /\ data_execucao' = relogio
    /\ historico_para_salvar' = HistoricoBaseline(snapshot_atual, relogio)
    /\ pc' = "abrir"
    /\ UNCHANGED <<relogio, arquivo, modo, max_novos, historico_anterior, todos_processos,
                   snapshot_atual, processos_novos, processos_atualizados,
                   processos_novos_selecionados, processos_novos_ignorados,
                   processos_ignorados, processos_para_pdf, resultados_pdf,
                   processos_com_pdf, planilha, email, pedidos_pdf, respostas_pdf, caminhos_pdf, erro, varsRelato, varsSettings>>

varsLocais == <<modo, historico_anterior, todos_processos, snapshot_atual, processos_novos,
                processos_atualizados, processos_novos_selecionados,
                processos_novos_ignorados, processos_ignorados, processos_para_pdf,
                resultados_pdf, processos_com_pdf, data_execucao, historico_para_salvar,
                planilha, email, pedidos_pdf, respostas_pdf, caminhos_pdf>>

\* lines 669 and 805: open(settings.historico_arquivo, "w") truncates the file
AbrirHistorico ==
    /\ pc = "abrir"
    /\ arquivo' = ArquivoTruncado
    /\ pc' = "gravar"
    /\ UNCHANGED <<relogio, max_novos, varsLocais, erro, varsRelato, varsSettings>>

\* lines 670 and 806: json.dump has written part of the document
GravarParte ==
    /\ pc = "gravar"
    /\ arquivo.estado = "vazio"
    /\ DOMAIN historico_para_salvar # {}
    /\ arquivo' = ArquivoParcial
    /\ UNCHANGED <<pc, relogio, max_novos, varsLocais, erro, varsRelato, varsSettings>>

\* lines 670 and 806: json.dump returns and the with block closes the file
ConcluirGravacao ==
    /\ pc = "gravar"
    /\ arquivo' = ArquivoCompleto(historico_para_salvar)
    /\ pc' = "planilha"
    /\ UNCHANGED <<relogio, max_novos, varsLocais, erro, varsRelato, varsSettings>>

\* lines 675 and 811-820
GerarPlanilha ==
    /\ pc = "planilha"
    /\ planilha' = LinhasPlanilha(snapshot_atual, processos_novos, processos_atualizados,
                                  processos_com_pdf, processos_ignorados)
    /\ pc' = "email"
    /\ UNCHANGED <<relogio, arquivo, modo, max_novos, historico_anterior, todos_processos,
                   snapshot_atual, processos_novos, processos_atualizados,
                   processos_novos_selecionados, processos_novos_ignorados,
                   processos_ignorados, processos_para_pdf, resultados_pdf,
                   processos_com_pdf, data_execucao, historico_para_salvar, email, pedidos_pdf, respostas_pdf, caminhos_pdf, erro, varsRelato, varsSettings>>

\* mutant: the exception of wb.save is swallowed and the run goes on to the e-mail
FalhaPlanilha_SegueParaEmail ==
    /\ pc = "planilha"
    /\ erro' = "wb.save"
    /\ pc' = "email"
    /\ UNCHANGED <<relogio, arquivo, max_novos, varsLocais, varsRelato, varsSettings>>

\* wb.save raises
FalhaPlanilha ==
    /\ pc = "planilha"
    /\ Encerrar("abortado", "wb.save")

\* the e-mail settings of a run: the mandatory ones set or missing
ConfigEmail ==
    [email_from : {None, "de@sei"}, email_to : {<<>>, <<"para@sei">>}, smtp_host : {None, "smtp"}]

\* what the SMTP conversation can end in
RespostasSmtp == {"ok", "SMTPAuthenticationError", "SMTPException", "OSError"}

\* email_utils.enviar_email_relatorio: "None" when it returns, else the exception it raises
enviar_email_relatorio(config, smtp) ==
    IF config.email_from = None \/ config.email_from = "" THEN "ValueError"
    ELSE IF config.email_to = <<>> THEN "ValueError"
    ELSE IF config.smtp_host = None \/ config.smtp_host = "" THEN "ValueError"
    ELSE IF smtp = "ok" THEN "None"
    ELSE smtp

\* lines 679-711 and 822-845: the subject and the two bodies
MontarCorpo ==
    IF modo = "baseline"
    THEN /\ itens_ignorados' = <<>>
         /\ corpo_texto' = <<[tipo |-> "Cadastro inicial concluido",
                               total |-> Len(snapshot_atual)]>>
         /\ corpo_html' = <<[tipo |-> "<h1>[SEI] Cadastro inicial concluido</h1>",
                              total |-> Len(snapshot_atual)]>>
    ELSE LET itens == ItensIgnorados(snapshot_atual, processos_novos_ignorados,
                                     pedidos_pdf, processos_ignorados)
         IN  /\ itens_ignorados' = itens
             /\ corpo_texto' = _construir_corpo_email_texto(
                                   snapshot_atual, processos_novos_selecionados,
                                   processos_atualizados, itens, processos_com_pdf, caminhos_pdf)
             /\ corpo_html' = _construir_corpo_email_html(
                                  snapshot_atual, processos_novos_selecionados,
                                  processos_atualizados, itens, processos_com_pdf, caminhos_pdf)

\* mutant: the exception of enviar_email_relatorio is not caught
EnviarEmail_Propaga ==
    /\ pc = "email"
    /\ \E config \in ConfigEmail, smtp \in RespostasSmtp :
          LET excecao == enviar_email_relatorio(config, smtp)
          IN  IF excecao = "None"
              THEN /\ email' = "enviado"
                   /\ pc' = "fim"
                   /\ UNCHANGED <<relogio, arquivo, modo, max_novos, historico_anterior,
                                  todos_processos, snapshot_atual, processos_novos,
                                  processos_atualizados, processos_novos_selecionados,
                                  processos_novos_ignorados, processos_ignorados,
                                  processos_para_pdf, resultados_pdf, processos_com_pdf,
                                  data_execucao, historico_para_salvar, planilha, pedidos_pdf, respostas_pdf,
                                  caminhos_pdf, erro, varsSettings>>
                   /\ MontarCorpo
              ELSE Encerrar("abortado", "enviar_email_relatorio")

\* lines 713-718 and 847-852: the e-mail is sent, or the exception is caught and logged
EnviarEmail ==
    /\ pc = "email"
    /\ \E excecao \in {enviar_email_relatorio(config, smtp) :
                          config \in ConfigEmail, smtp \in RespostasSmtp} :
          email' = IF excecao = "None" THEN "enviado" ELSE excecao
    /\ MontarCorpo
    /\ pc' = "fim"
    /\ UNCHANGED <<relogio, arquivo, modo, max_novos, historico_anterior, todos_processos,
                   snapshot_atual, processos_novos, processos_atualizados,
                   processos_novos_selecionados, processos_novos_ignorados,
                   processos_ignorados, processos_para_pdf, resultados_pdf,
                   processos_com_pdf, data_execucao, historico_para_salvar, planilha,
                   pedidos_pdf, respostas_pdf, caminhos_pdf, erro, varsSettings>>

\* the process is killed in the middle of a run
Interromper ==
    /\ ~Parado
    /\ Encerrar("interrompido", "nenhum")

Next ==
    \/ Iniciar \/ FalhaLogin \/ FalhaCarregar
    \/ Coletar \/ FalhaColeta
    \/ Enriquecer \/ FalhaEnriquecimento
    \/ Classificar
    \/ AplicarLimites
    \/ BaixarPdf \/ ProcessarResultados
    \/ AtualizarHistorico \/ MontarBaseline
    \/ AbrirHistorico \/ GravarParte \/ ConcluirGravacao
    \/ GerarPlanilha \/ FalhaPlanilha
    \/ EnviarEmail
    \/ Interromper

Spec == Init /\ [][Next]_vars

----------------------------------------------------------------------------
(* Claims about the classifier *)

\* the history entry a record is compared with, and whether there is one
EntradaDe(i) == Get(historico_anterior, Chave(snapshot_atual[i]), DictVazio)
TemEntrada(i) == Chave(snapshot_atual[i]) \in DOMAIN historico_anterior /\ EntradaDe(i) # DictVazio

TemCaractere(m) == \E j \in 1..Len(m) : m[j] # " "
MarcadoresNaoVazios(lista) == {m \in Range(lista) : TemCaractere(m)}

DocumentoNovo(i) ==
    \E d \in Range(snapshot_atual[i].documentos) :
        \A h \in Range(Get(EntradaDe(i), "documentos", <<>>)) :
            Get(h, "id_documento", None) # d.id_documento
MarcadoresDiferem(i) ==
    MarcadoresNaoVazios(snapshot_atual[i].marcadores)
        # MarcadoresNaoVazios(Get(EntradaDe(i), "marcadores", <<>>))
AssinantesDiferem(i) ==
    \/ \E a \in Range(snapshot_atual[i].assinantes) : a \notin Range(Get(EntradaDe(i), "assinantes", <<>>))
    \/ \E a \in Range(Get(EntradaDe(i), "assinantes", <<>>)) : a \notin Range(snapshot_atual[i].assinantes)

C2_AusenteEhNovo ==
    pc = "identificado" =>
        /\ \A i \in 1..Len(snapshot_atual) :
              Chave(snapshot_atual[i]) \notin DOMAIN historico_anterior
                  => i \in Range(processos_novos)
        /\ DOMAIN historico_anterior = {}
              => /\ processos_novos = [i \in 1..Len(snapshot_atual) |-> i]
                 /\ processos_atualizados = <<>>

C2_Witness ==
    /\ pc = "identificado"
    /\ DOMAIN historico_anterior # {}
    /\ Len(snapshot_atual) = 2
    /\ Chave(snapshot_atual[1]) \in DOMAIN historico_anterior
    /\ Chave(snapshot_atual[2]) \notin DOMAIN historico_anterior
    /\ snapshot_atual[2].id_procedimento = ""
    /\ processos_novos = <<2>>

\* the snapshots that differ from s only in tem_documentos_novos, tem_anotacoes and
\* the documents' eh_novo
VariantesDocumentos(docs) ==
    { v \in [1..Len(docs) -> [id_documento : {d.id_documento : d \in Range(docs)}, eh_novo : BOOLEAN]] :
        \A j \in 1..Len(docs) : v[j].id_documento = docs[j].id_documento }
VariantesProcesso(p) ==
    { [p EXCEPT !.tem_documentos_novos = t, !.tem_anotacoes = a, !.documentos = d] :
        t \in BOOLEAN, a \in BOOLEAN, d \in VariantesDocumentos(p.documentos) }
VariantesSnapshot(s) ==
    { v \in [1..Len(s) -> UNION {VariantesProcesso(s[j]) : j \in 1..Len(s)}] :
        \A j \in 1..Len(s) : v[j] \in VariantesProcesso(s[j]) }

\* C3: the lists returned do not depend on tem_documentos_novos, tem_anotacoes or the
\* documents' eh_novo: every snapshot that differs from the classified one only in those
\* flags is classified into the same new and updated positions.
C3_IndicadoresNaoContam ==
    pc = "identificado" =>
        \A v \in VariantesSnapshot(snapshot_atual) :
            LET r == _identificar_processos_novos_e_atualizados(historico_anterior, v)
            IN  r.novos = processos_novos /\ r.atualizados = processos_atualizados

C3_Witness ==
    /\ pc = "identificado"
    /\ \E i \in 1..Len(snapshot_atual) :
          /\ TemEntrada(i)
          /\ snapshot_atual[i].tem_documentos_novos
          /\ ~Get(EntradaDe(i), "tem_documentos_novos", FALSE)
          /\ \E d \in Range(snapshot_atual[i].documentos) : d.eh_novo
          /\ i \notin Range(processos_atualizados)

----------------------------------------------------------------------------
(* Claims about the quota *)

\* C4: with max_novos >= len(processos) the result is (processos, []).
C4_SemCorte ==
    (pc = "retornou" /\ max_novos >= Len(processos_novos)) =>
        /\ processos_novos_selecionados = processos_novos
        /\ processos_novos_ignorados = <<>>

C4_Witness ==
    /\ pc = "retornou"
    /\ max_novos = Len(processos_novos)
    /\ Len(processos_novos) = 2
    /\ processos_novos_selecionados = processos_novos

\* the partition the claim describes
ParticaoEmMax ==
    /\ Len(processos_novos_selecionados) = max_novos
    /\ Len(processos_novos_ignorados) = Len(processos_novos) - max_novos
    /\ processos_novos_selecionados \o processos_novos_ignorados = processos_novos

\* C5 as stated: for every integer max_novos < len(processos) the result is the
\* partition of processos into its first max_novos records and the rest.
C5_ParticaoTodoInteiro ==
    (pc = "retornou" /\ max_novos < Len(processos_novos)) => ParticaoEmMax

\* C5 amended: the same for every max_novos with 0 <= max_novos < len(processos).
C5_ParticaoNaoNegativo ==
    (pc = "retornou" /\ 0 <= max_novos /\ max_novos < Len(processos_novos)) => ParticaoEmMax

C5_Witness ==
    /\ pc = "retornou"
    /\ max_novos = 1
    /\ Len(processos_novos) = 3
    /\ Len(processos_novos_selecionados) = 1
    /\ Len(processos_novos_ignorados) = 2

----------------------------------------------------------------------------
(* Claims about the history across runs *)

\* the history file has been rewritten by the run in progress
HistoricoGravado == pc \in {"planilha", "email", "fim"}

MetadataDe(entrada) == Get(entrada, "_metadata", DictVazio)

\* the keys of the records at the given positions of the snapshot
ChavesDe(posicoes) == {Chave(snapshot_atual[posicoes[j]]) : j \in 1..Len(posicoes)}

\* C6: once the persisted entry of a key has data_primeira_vez_visto, the entry a later
\* run persists for that key carries the same data_primeira_vez_visto.
C6_PrimeiraVezPreservada ==
    (HistoricoGravado /\ modo = "diario") =>
        \A k \in DOMAIN historico_anterior \cap DOMAIN arquivo.conteudo :
            "data_primeira_vez_visto" \in DOMAIN MetadataDe(historico_anterior[k]) =>
                /\ "data_primeira_vez_visto" \in DOMAIN MetadataDe(arquivo.conteudo[k])
                /\ MetadataDe(arquivo.conteudo[k])["data_primeira_vez_visto"]
                     = MetadataDe(historico_anterior[k])["data_primeira_vez_visto"]

\* C7: every key of the persisted history before a run is in the persisted history
\* after the run, whether or not the run's snapshot has a record of that key.
C7_ChavesSoCrescem ==
    HistoricoGravado => DOMAIN historico_anterior \subseteq DOMAIN arquivo.conteudo

\* C8: for a record the history already knew and the run did not classify as updated,
\* the persisted data_ultima_atualizacao is not the run's timestamp, and a value the
\* entry had before the run is kept.
C8_UltimaAtualizacaoSoSeAtualizado ==
    (HistoricoGravado /\ modo = "diario") =>
        \A i \in 1..Len(snapshot_atual) :
            LET k == Chave(snapshot_atual[i])
            IN  (k \in DOMAIN historico_anterior /\ k \notin ChavesDe(processos_atualizados)) =>
                    LET antes == MetadataDe(historico_anterior[k])
                        depois == MetadataDe(arquivo.conteudo[k])
                    IN  /\ Get(depois, "data_ultima_atualizacao", 0) # data_execucao
                        /\ "data_ultima_atualizacao" \in DOMAIN antes =>
                               Get(depois, "data_ultima_atualizacao", 0)
                                   = antes["data_ultima_atualizacao"]

\* C9: at every point, an interruption included, the history file is a whole document
\* (or does not exist yet), never an empty or partly written file.
C9_PersistenciaAtomica == arquivo.estado \in {"ausente", "completo"}

\* C10: the path is chosen once, when the run starts, from the history file: baseline
\* iff the file is absent or holds no entries, incremental iff it holds entries; the
\* choice stands for the whole run and only the chosen path's steps are taken.
C10_ModoEscolhidoUmaVez ==
    [][ /\ (pc # "coletar" /\ pc' = "coletar") =>
              /\ modo' \in {"baseline", "diario"}
              /\ modo' = "baseline"
                   <=> (arquivo.estado = "ausente" \/ DOMAIN arquivo.conteudo = {})
              /\ modo' = "diario"
                   <=> (arquivo.estado # "ausente" /\ DOMAIN arquivo.conteudo # {})
        /\ (~Parado /\ ~Parado') => modo' = modo
        /\ pc' \in {"classificar", "limitar", "baixar", "atualizar"} => modo' = "diario"
        /\ pc' = "montar" => modo' = "baseline"
      ]_vars

C10_Witness ==
    /\ pc = "fim"
    /\ modo = "diario"
    /\ relogio = 2
    /\ DOMAIN historico_anterior # {}

----------------------------------------------------------------------------
(* Claims about the stages of a run *)

\* the run has passed the artifact stage, or never had one
AposPdf == pc \in {"atualizar", "abrir", "gravar", "planilha", "email", "fim"}

\* C11: in a baseline run, by the time the history is written client.generate_pdf has
\* been called once for every record left after the debug truncation, in order.
C11_BaselineBaixaTodos ==
    (modo = "baseline" /\ pc \in {"abrir", "gravar", "planilha", "email", "fim"}) =>
        pedidos_pdf = [i \in 1..Len(snapshot_atual) |-> i]

\* C12: in both paths the delivery step, whether the e-mail goes out or
\* enviar_email_relatorio raises (ValueError for a missing mandatory setting, an SMTP or
\* transport error), ends the run normally with no exception propagated, the failure
\* logged, and the history file and the spreadsheet as they were before the step.
C12_FalhaEmailNaoPropaga ==
    [][ (pc = "email" /\ pc' # "interrompido") =>
            /\ pc' = "fim"
            /\ erro' = "nenhum"
            /\ email' \in {"enviado", "ValueError"} \cup (RespostasSmtp \ {"ok"})
            /\ arquivo' = arquivo
            /\ planilha' = planilha
            /\ modo' = modo
      ]_vars

C12_Witness ==
    /\ pc = "fim"
    /\ modo = "diario"
    /\ email = "SMTPException"
    /\ erro = "nenhum"
    /\ arquivo = ArquivoCompleto(historico_para_salvar)
    /\ Len(planilha) = 2

\* C15: in an incremental run the spreadsheet has one row per record of the snapshot, in
\* snapshot order, each row carrying its record's columns, whether the record is new,
\* updated, unchanged, deferred or processed; the rows are as many as the records
\* collected.
C15_UmaLinhaPorRegistro ==
    (modo = "diario" /\ pc \in {"email", "fim"}) =>
        /\ Len(planilha) = Len(snapshot_atual)
        /\ Len(planilha) = Len(todos_processos)
        /\ \A i \in 1..Len(planilha) :
              /\ planilha[i].processo.numero_processo = snapshot_atual[i].numero_processo
              /\ planilha[i].processo.id_procedimento = snapshot_atual[i].id_procedimento
              /\ planilha[i].processo.marcadores = snapshot_atual[i].marcadores
              /\ planilha[i].processo.documentos_novos = snapshot_atual[i].tem_documentos_novos
              /\ planilha[i].processo.anotacoes = snapshot_atual[i].tem_anotacoes

C15_Witness ==
    /\ pc = "email"
    /\ modo = "diario"
    /\ Len(snapshot_atual) = 2
    /\ processos_novos = <<2>>
    /\ processos_atualizados = <<>>
    /\ Len(planilha) = 2
    /\ ~planilha[1].eh_novo /\ ~planilha[1].teve_atualizacao
    /\ planilha[2].eh_novo /\ ~planilha[2].pdf_baixado /\ planilha[2].ignorado

\* the item lines and the overflow lines of a body
LinhasDeTipo(corpo, tipo) == SelectSeq(corpo, LAMBDA linha : linha.tipo = tipo)

\* what the claim says of the deferred section of one body
SecaoComCorte(corpo) ==
    LET itens == LinhasDeTipo(corpo, "item")
        mais == LinhasDeTipo(corpo, "mais")
        n == Len(itens_ignorados)
    IN  /\ Len(itens) <= 10
        /\ Len(itens) = IF n <= 10 THEN n ELSE 10
        /\ \A j \in 1..Len(itens) :
              /\ itens[j].proc_id = itens_ignorados[j].chave
              /\ itens[j].motivo = itens_ignorados[j].motivo
        /\ n > 10 => mais = <<[tipo |-> "mais", quantidade |-> n - 10]>>
        /\ n <= 10 => mais = <<>>
        /\ \A a, b \in 1..Len(corpo) :
              (corpo[a].tipo = "item" /\ corpo[b].tipo = "mais") => a < b

\* C16: in the text body and in the HTML body the deferred section lists the first 10
\* deferred records at most, each with its reason; with more than 10 deferred an overflow
\* line with the count minus 10 follows the list, with 10 or fewer all are listed and
\* there is no overflow line.
C16_SecaoIgnoradosComCorte ==
    pc = "construido" => (SecaoComCorte(corpo_texto) /\ SecaoComCorte(corpo_html))

C16_Witness ==
    /\ pc = "construido"
    /\ Len(itens_ignorados) = 11
    /\ Len(LinhasDeTipo(corpo_texto, "item")) = 10
    /\ LinhasDeTipo(corpo_texto, "mais") = <<[tipo |-> "mais", quantidade |-> 1]>>
    /\ LinhasDeTipo(corpo_html, "mais") = <<[tipo |-> "mais", quantidade |-> 1]>>

\* the number of hundredths of a MB nearest to a size in bytes
CentesimosDeMb(tamanho, c) ==
    LET distancia == IF c * 1024 * 1024 >= tamanho * 100
                     THEN c * 1024 * 1024 - tamanho * 100
                     ELSE tamanho * 100 - c * 1024 * 1024
    IN  2 * distancia <= 1024 * 1024

\* C14: for every key whose acquisition succeeded with a path whose file exists: if the
\* size is strictly above max_tamanho_pdf_mb * 1024 * 1024 bytes the key is not in the
\* has-artifact set nor in the path map and is deferred with the reason naming the limit
\* and the size in MB to two decimals; otherwise the key is in the has-artifact set, its
\* path is retained and it has no deferral reason.
C14_LimiteDeTamanho ==
    (modo = "diario" /\ pc = "atualizar") =>
        \A k \in DOMAIN resultados_pdf :
            LET r == resultados_pdf[k].resultado
            IN  (r.sucesso /\ r.caminho # None /\ r.existe) =>
                    IF r.tamanho > max_tamanho_pdf_mb * 1024 * 1024
                    THEN /\ k \notin processos_com_pdf
                         /\ k \notin DOMAIN caminhos_pdf
                         /\ k \in DOMAIN processos_ignorados
                         /\ processos_ignorados[k].tipo = "PDF >"
                         /\ processos_ignorados[k].limite_mb = max_tamanho_pdf_mb
                         /\ CentesimosDeMb(r.tamanho,
                                processos_ignorados[k].tamanho_mb.inteiro * 100
                                    + processos_ignorados[k].tamanho_mb.decimais)
                    ELSE /\ k \in processos_com_pdf
                         /\ k \in DOMAIN caminhos_pdf
                         /\ caminhos_pdf[k] = r.caminho
                         /\ k \notin DOMAIN processos_ignorados

\* C17: from the start of a run until collection and enrichment are over the history file
\* is not written, and when client.collect_processes or client.enrich_processes raises
\* the run ends with that exception, the file as it was, no spreadsheet and no e-mail.
C17_FalhaColetaNaoGrava ==
    [][ /\ pc' \in {"coletar", "enriquecer"} => arquivo' = arquivo
        /\ (pc \in {"coletar", "enriquecer"} /\ pc' = "abortado") =>
               /\ erro' = IF pc = "coletar" THEN "collect_processes" ELSE "enrich_processes"
               /\ arquivo' = arquivo
               /\ planilha' = <<>>
               /\ email' = "nenhum"
      ]_vars

C17_Witness ==
    /\ pc = "abortado"
    /\ erro = "enrich_processes"
    /\ relogio = 2
    /\ arquivo.estado = "completo"
    /\ DOMAIN arquivo.conteudo # {}

\* the integers the strings drawn for the environment denote; a string outside the
\* table is not an integer (" 7" is read as 7, as int() reads it)
InteiroDe ==
    (<<"0">> :> 0) @@ (<<"1">> :> 1) @@ (<<"5">> :> 5) @@ (<<"-", "1">> :> (0 - 1))
      @@ (<<"1", "2">> :> 12) @@ (<<" ", "7">> :> 7) @@ (<<"4", "6", "5">> :> 465)

\* the value the claim gives a setting read from the variable nome
EsperadoComMinimo(nome, default) ==
    IF nome \notin DOMAIN env THEN default
    ELSE IF env[nome] \notin DOMAIN InteiroDe THEN default
    ELSE IF InteiroDe[env[nome]] < 1 THEN default
    ELSE InteiroDe[env[nome]]

C13_UmPedidoPorRegistro ==
    modo = "diario" =>
        /\ pc \in {"coletar", "enriquecer", "classificar", "limitar"} => pedidos_pdf = <<>>
        /\ pc = "baixar" =>
               pedidos_pdf \o processos_para_pdf
                   = processos_novos_selecionados \o processos_atualizados
        /\ AposPdf => pedidos_pdf = processos_novos_selecionados \o processos_atualizados

C13_Witness ==
    /\ pc = "atualizar"
    /\ modo = "diario"
    /\ processos_novos_selecionados = <<2>>
    /\ processos_atualizados = <<1>>
    /\ pedidos_pdf = <<2, 1>>
    /\ resultados_pdf[Chave(snapshot_atual[2])].motivo.tipo = "Erro"
    /\ resultados_pdf[Chave(snapshot_atual[1])].resultado.sucesso

----------------------------------------------------------------------------
(* More claims about the classifier *)

\* the record's tem_documentos_novos is not the value its history entry stores
IndicadorDifere(i) ==
    snapshot_atual[i].tem_documentos_novos # Get(EntradaDe(i), "tem_documentos_novos", FALSE)

EmOrdem(posicoes) ==
    /\ \A a \in 1..Len(posicoes) : posicoes[a] \in 1..Len(snapshot_atual)
    /\ \A a, b \in 1..Len(posicoes) : a < b => posicoes[a] < posicoes[b]

\* C20: the new list and the updated list are each a subsequence of the snapshot in its
\* order, and no key is in both.
C20_SubsequenciasDisjuntas ==
    pc = "identificado" =>
        /\ EmOrdem(processos_novos)
        /\ EmOrdem(processos_atualizados)
        /\ ChavesDe(processos_novos) \cap ChavesDe(processos_atualizados) = {}

C20_Witness ==
    /\ pc = "identificado"
    /\ Len(snapshot_atual) = 2
    /\ processos_novos = <<1>>
    /\ processos_atualizados = <<2>>
    /\ DOMAIN historico_anterior # {}

----------------------------------------------------------------------------
(* Claims about history entries the program did not write *)

\* the entry of record i is missing or malformed: no key, an empty entry, or an entry
\* in which documentos, marcadores or assinantes is missing or null
EntradaMalformada(i) ==
    \/ Chave(snapshot_atual[i]) \notin DOMAIN historico_anterior
    \/ DOMAIN EntradaDe(i) = {}
    \/ \E nome \in {"documentos", "marcadores", "assinantes"} :
          nome \notin DOMAIN EntradaDe(i) \/ CampoNulo(EntradaDe(i), nome)

\* C21: the classifier never raises, and every record whose history entry is missing
\* or malformed is in the new list it returns.
C21_MalformadaEhNovo ==
    pc # "identificar" =>
        /\ pc = "identificado"
        /\ \A i \in 1..Len(snapshot_atual) :
              EntradaMalformada(i) => i \in Range(processos_novos)

\* the ids of the documents of a list that have one
IdsPresentes(docs) == {Get(d, "id_documento", None) : d \in Range(docs)} \ {None}

\* C22: a document without an id takes no part in the comparison of document ids: a
\* record with a history entry whose documents that have an id are all in the entry,
\* and whose non-empty markers and signers are the entry's, is not in the updated list.
C22_SemIdNaoConta ==
    pc = "identificado" =>
        \A i \in 1..Len(snapshot_atual) :
            ( /\ TemEntrada(i)
              /\ IdsPresentes(snapshot_atual[i].documentos)
                   \subseteq IdsPresentes(Get(EntradaDe(i), "documentos", <<>>))
              /\ ~MarcadoresDiferem(i)
              /\ ~AssinantesDiferem(i) )
            => i \notin Range(processos_atualizados)

\* the markers of a list after trimming, the empty ones left out
MarcadoresAparados(lista) == {strip(m) : m \in Range(lista)} \ {<<>>}

\* C23: markers are compared as the sets of their trimmed, non-empty strings: a record
\* with a history entry, with no new document id and the entry's signers, is in the
\* updated list iff its set of trimmed non-empty markers differs from the entry's.
C23_MarcadoresAparados ==
    pc = "identificado" =>
        \A i \in 1..Len(snapshot_atual) :
            (TemEntrada(i) /\ ~DocumentoNovo(i) /\ ~AssinantesDiferem(i)) =>
                ( i \in Range(processos_atualizados)
                    <=> MarcadoresAparados(snapshot_atual[i].marcadores)
                          # MarcadoresAparados(Get(EntradaDe(i), "marcadores", <<>>)) )

----------------------------------------------------------------------------
(* More claims about the stages of a run *)

\* the j-th call of client.generate_pdf failed: no success, no path, or an exception
PedidoFalhou(j) ==
    \/ respostas_pdf[j].excecao
    \/ ~respostas_pdf[j].sucesso
    \/ respostas_pdf[j].caminho = None

\* C24: when the download stage of an incremental run is over, every record whose
\* download failed has its key in processos_ignorados with the collaborator's error
\* text as the reason, and the key is neither in processos_com_pdf nor in caminhos_pdf.
C24_FalhaDePdfIgnorada ==
    (pc = "atualizar" /\ modo = "diario") =>
        \A j \in 1..Len(pedidos_pdf) :
            PedidoFalhou(j) =>
                LET chave == Chave(snapshot_atual[pedidos_pdf[j]])
                IN  /\ chave \in DOMAIN processos_ignorados
                    /\ processos_ignorados[chave].tipo \in {"falha", "Erro"}
                    /\ processos_ignorados[chave].texto = respostas_pdf[j].erro
                    /\ processos_ignorados[chave].texto # ""
                    /\ chave \notin processos_com_pdf
                    /\ chave \notin DOMAIN caminhos_pdf

\* the spreadsheet of an incremental run has been written
PlanilhaEscrita == pc \in {"email", "fim"} /\ modo = "diario"

\* record i was left out of the analysis: by the quota, or by what its download gave
AdiadoPorLimite(i) == i \in Range(processos_novos_ignorados)
AdiadoPorPdf(i) ==
    i \in Range(pedidos_pdf) /\ Chave(snapshot_atual[i]) \notin processos_com_pdf

\* C25: in every row of the spreadsheet the column "Ignorado Por Limite" is true exactly
\* for the records the quota deferred, and the column "Motivo Nao Analisado" is filled
\* exactly for the records left out of the analysis for any reason.
C25_ColunasDeIgnorado ==
    PlanilhaEscrita =>
        \A i \in 1..Len(planilha) :
            /\ planilha[i].ignorado <=> AdiadoPorLimite(i)
            /\ planilha[i].motivo.tipo # "" <=> (AdiadoPorLimite(i) \/ AdiadoPorPdf(i))

\* C26: an incremental run (there is one only on a non-empty history persisted by an
\* earlier run) that has rewritten the history file leaves a file on which the next call
\* of run_daily_report takes the incremental path again, whatever the collector returned.
C26_SempreIncremental ==
    (modo = "diario" /\ HistoricoGravado) =>
        /\ arquivo.estado = "completo"
        /\ DOMAIN arquivo.conteudo # {}
        /\ ~_is_primeira_execucao(arquivo)

\* record i is the last one the snapshot lists under its key (every record is, when no
\* two records share a key): the entry persisted under the key is this record's
UltimoDaChave(i) ==
    \A v \in 1..Len(snapshot_atual) :
        Chave(snapshot_atual[v]) = Chave(snapshot_atual[i]) => v <= i

\* what the next run makes of record v alone, against the history now on disk
ProximaClassificacao(v) == _identificar_processos_novos_e_atualizados(arquivo.conteudo, <<v>>)

C28_ComPdfOuIgnorado ==
    (AposPdf /\ modo = "diario") =>
        /\ processos_com_pdf \cap DOMAIN processos_ignorados = {}
        /\ \A chave \in ChavesDe(processos_novos_selecionados) \cup ChavesDe(processos_atualizados) :
              (chave \in processos_com_pdf) # (chave \in DOMAIN processos_ignorados)

\* C29: when the download stage of an incremental run is over, every key of
\* processos_com_pdf has a result that reported success with a path whose file exists
\* and measures at most max_tamanho_pdf_mb * 1024 * 1024 bytes.
C29_ComPdfTemArquivo ==
    (pc = "atualizar" /\ modo = "diario") =>
        \A chave \in processos_com_pdf :
            /\ chave \in DOMAIN resultados_pdf
            /\ resultados_pdf[chave].resultado.sucesso
            /\ resultados_pdf[chave].resultado.caminho # None
            /\ resultados_pdf[chave].resultado.existe
            /\ resultados_pdf[chave].resultado.tamanho <= max_tamanho_pdf_mb * 1024 * 1024

\* the place of a step in _executar_relatorio_diario
Passo ==
    [p \in {"coletar", "enriquecer", "classificar", "limitar", "baixar", "atualizar",
            "abrir", "gravar", "planilha", "email", "fim"} |->
        CASE p = "coletar" -> 1 [] p = "enriquecer" -> 2 [] p = "classificar" -> 3
          [] p = "limitar" -> 4 [] p = "baixar" -> 5 [] p = "atualizar" -> 6
          [] p = "abrir" -> 7 [] p = "gravar" -> 8 [] p = "planilha" -> 9
          [] p = "email" -> 10 [] p = "fim" -> 11]

\* C30: an incremental run goes through collect, enrich, classify, quota, downloads,
\* history file, spreadsheet, e-mail in that order, one step at a time (only the download
\* loop and the write of the file take several steps in place); the spreadsheet is
\* written with the history file already rewritten; the e-mail is attempted once, after
\* both; a failure of the spreadsheet write ends the run with no e-mail attempted and the
\* rewritten history file left as it is.
C30_OrdemDosPassos ==
    [][ /\ (modo' = "diario" /\ pc' = "coletar" /\ pc # "coletar") => Parado
        /\ (modo = "diario" /\ modo' = "diario" /\ ~Parado) =>
              \/ pc' = pc /\ pc \in {"baixar", "gravar"}
              \/ Passo[pc'] = Passo[pc] + 1
        /\ (modo = "diario" /\ pc = "planilha") =>
              /\ arquivo = ArquivoCompleto(historico_para_salvar)
              /\ arquivo' = arquivo
              /\ email = "nenhum"
        /\ (modo = "diario" /\ email' # email /\ email' # "nenhum") =>
              /\ pc = "email" /\ pc' = "fim"
              /\ email = "nenhum"
              /\ arquivo = ArquivoCompleto(historico_para_salvar)
              /\ planilha = LinhasPlanilha(snapshot_atual, processos_novos,
                                           processos_atualizados, processos_com_pdf,
                                           processos_ignorados)
        /\ (erro' = "wb.save" /\ erro # "wb.save") =>
              /\ pc = "planilha" /\ pc' = "abortado"
              /\ email' = "nenhum"
              /\ arquivo' = arquivo
      ]_vars

\* the spreadsheet write of an incremental run failed: the run is over, no e-mail, and
\* the file holds the history this run wrote
C30_Witness ==
    /\ pc = "abortado"
    /\ erro = "wb.save"
    /\ email = "nenhum"
    /\ arquivo.estado = "completo"
    /\ \E chave \in DOMAIN arquivo.conteudo :
          /\ "data_ultima_atualizacao" \in DOMAIN MetadataDe(arquivo.conteudo[chave])
          /\ MetadataDe(arquivo.conteudo[chave])["data_ultima_atualizacao"] = relogio

====
